---- MODULE Spec2Model ----
(***************************************************************************)
(* Adaboards API: the board / membership / task services behind the HTTP   *)
(* controllers, over a relational store (Prisma on SQLite).                *)
(*                                                                         *)
(* Every service method is a chain of `await prisma...` calls.  Each call  *)
(* is one atomic store operation; the synchronous code that follows it     *)
(* (the checks and the throw) runs before the next call is issued.  A      *)
(* method is therefore modelled as a step function over a request record   *)
(* whose pc names the store call to issue next.  Requests are in flight     *)
(* together and their store calls interleave; run takes one request alone  *)
(* from its first store call to its answer.                                *)
(*                                                                         *)
(* Every method issues at most one write, as its last store call, so a     *)
(* request in flight has only read: the store of a state with requests in  *)
(* flight is also the store of a state without (the same history with      *)
(* those requests left out).  A property of the store alone can therefore *)
(* be stated for the quiet states, and the costlier ones are.              *)
(***************************************************************************)
EXTENDS Integers, Sequences, FiniteSets, TLC

VARIABLES users, boards, memberships, tasks, nextBoard, nextTask, reqs, clock,
          tokens

vars == <<users, boards, memberships, tasks, nextBoard, nextTask, reqs, clock, tokens>>

(***************************************************************************)
(* Bounds of the model.                                                    *)
(***************************************************************************)
\* Boards ever created under BoardSpec (ids are never reused after a delete),
\* and the boards of CrossSpec with the tasks ever created on them.
MaxBoards == 2
MaxTasks == 2
\* Boards ever created under Spec.
SpecBoards == 1
\* Boards and tasks ever created under TaskSpec and SerialSpec.
TaskBoards == 1
TaskTasks == 1
\* Requests in flight together.
MaxInFlight == 2
\* Days that pass under AuthSpec.
MaxClock == 8

\* The people who use the service.  Each has one e-mail address and registers
\* at most once (there is no delete endpoint); the id of a person's User row,
\* an opaque cuid in the code, is written as the person.
Users == {"u1", "u2", "u3"}
\* User ids a request can name: those of the people and one unknown id.
UserIds == Users \cup {"ux"}
TaskIds == 1..MaxTasks
Names == {"X", "Y"}
\* The name a board is created with.
NewNames == {"X"}
Titles == {"A"}

Roles == {"OWNER", "MAINTAINER", "MEMBER"}
TaskStatus == {"TODO", "IN_PROGRESS", "DONE"}

\* JavaScript's null and undefined, for optional request fields and columns.
Null == "null"
Undefined == "undefined"

(***************************************************************************)
(* The store.  S is a record of the tables:                                *)
(*   users        set of [id, email, name, password]                       *)
(*   boards       sequence of [id, name], most recently updated first      *)
(*                (the order of the updatedAt column)                      *)
(*   memberships  set of [userId, boardId, role]                           *)
(*   tasks        set of [id, boardId, createdBy, assignedTo, title,       *)
(*                description, status]                                     *)
(* with the ids the store gave last and, as now, the server's clock in     *)
(* days.                                                                   *)
(***************************************************************************)
Store == [users |-> users, boards |-> boards, memberships |-> memberships,
          tasks |-> tasks, nextBoard |-> nextBoard, nextTask |-> nextTask,
          now |-> clock]

\* The ids of the User rows.
userIds(S) == {x.id : x \in S.users}

\* prisma.user.findUnique({where: {email}}): the rows found (none, or the one
\* row the unique index on email allows).
user_findUnique(S, email) == {x \in S.users : x.email = email}

boardIds(S) == {S.boards[i].id : i \in 1..Len(S.boards)}

RECURSIVE without(_, _)
\* The board sequence without board b.
without(seq, b) ==
  IF seq = <<>> THEN <<>>
  ELSE IF Head(seq).id = b THEN without(Tail(seq), b)
  ELSE <<Head(seq)>> \o without(Tail(seq), b)

\* prisma.membership.findUnique({where: {userId_boardId}}): the rows found
\* (none, or the one row the unique index allows).
membership_findUnique(S, u, b) ==
  {m \in S.memberships : m.userId = u /\ m.boardId = b}

\* prisma.membership.count({where: {boardId, role: 'OWNER'}})
membership_count(S, b, role) ==
  Cardinality({m \in S.memberships : m.boardId = b /\ m.role = role})

\* prisma.task.findFirst({where: {id, boardId}})
\* Mutant of task_findFirst: the task is looked up by id alone.
task_findFirst_anyBoard(S, t, b) == {k \in S.tasks : k.id = t}

task_findFirst(S, t, b) == {k \in S.tasks : k.id = t /\ k.boardId = b}

(***************************************************************************)
(* Errors and results.  An error is the class of the thrown object and its *)
(* message.  The store's own failures are PrismaClientKnownRequestError,   *)
(* with the error code standing for the message.                           *)
(***************************************************************************)
Pending == [state |-> "pending", name |-> "", message |-> "", value |-> <<>>]
Ok(v) == [state |-> "ok", name |-> "", message |-> "", value |-> v]
Error(name, message) ==
  [state |-> "error", name |-> name, message |-> message, value |-> <<>>]
PrismaError(code) == Error("PrismaClientKnownRequestError", code)

NewReq(op, u, b, t, role, task, data) ==
  [op |-> op, pc |-> "start", userId |-> u, boardId |-> b, targetUserId |-> t,
   role |-> role, taskId |-> task, data |-> data,
   membership |-> {}, ownerCount |-> 0, user |-> {}, hashedPassword |-> <<>>,
   res |-> Pending]

\* A query-string text: absent, or a string of characters.
NoText == [form |-> "undefined", chars |-> <<>>]
Text(chars) == [form |-> "string", chars |-> chars]
\* searchUsers(query, currentUserId, limit = 10)
DefaultLimit == 10

\* userName is the name field of a RegisterDTO, name that of a board.
NoData == [name |-> Undefined, title |-> Undefined, description |-> Undefined,
           status |-> Undefined, assignedTo |-> Undefined,
           query |-> NoText, limit |-> DefaultLimit,
           email |-> <<>>, userName |-> <<>>, password |-> ""]
Idle == NewReq("idle", "", 0, "", "", 0, NoData)

Throw(S, r, name, message) ==
  [S |-> S, r |-> [r EXCEPT !.pc = "done", !.res = Error(name, message)]]
Fail(S, r, code) ==
  [S |-> S, r |-> [r EXCEPT !.pc = "done", !.res = PrismaError(code)]]
Return(S, r, v) == [S |-> S, r |-> [r EXCEPT !.pc = "done", !.res = Ok(v)]]
Goto(S, r, pc) == [S |-> S, r |-> [r EXCEPT !.pc = pc]]
\* The client refuses the arguments of a call before it reaches the store.
\* (Its messages name the argument between backquotes, left out here.)
Invalid(S, r, message) ==
  [S |-> S, r |-> [r EXCEPT !.pc = "done",
                            !.res = Error("PrismaClientValidationError", message)]]

(***************************************************************************)
(* mapError: the controllers' catch block.                                 *)
(***************************************************************************)
mapError(e) ==
  IF e.name = "NotFoundError" THEN [status |-> 404, error |-> e.message]
  ELSE IF e.name = "ForbiddenError" THEN [status |-> 403, error |-> e.message]
  ELSE IF e.name = "UnauthorizedError" THEN [status |-> 401, error |-> e.message]
  ELSE IF e.name \in {"BadRequestError", "ValidationError"}
    THEN [status |-> 400, error |-> e.message]
  ELSE IF e.name = "ConflictError" THEN [status |-> 409, error |-> e.message]
  ELSE [status |-> 500, error |-> "Internal server error"]

\* The response a controller sends for a finished request: the success status
\* of its route, or mapError of what the service threw.
respond(res, success) ==
  IF res.state = "ok" THEN [status |-> success, error |-> ""]
  ELSE mapError(res)

(***************************************************************************)
(* MembershipService.  Its failures are plain `Error` objects.             *)
(***************************************************************************)
RECURSIVE setToSeq(_)
setToSeq(set) ==
  IF set = {} THEN <<>>
  ELSE LET x == CHOOSE y \in set : TRUE IN <<x>> \o setToSeq(set \ {x})

\* The view of a membership row that the methods return.
memberView(m) == [userId |-> m.userId, boardId |-> m.boardId, role |-> m.role]

\* prisma.membership.create: the unique index on (userId, boardId) and the
\* foreign keys to User and Board are checked by the store.
membership_create(S, r) ==
  IF membership_findUnique(S, r.targetUserId, r.boardId) # {} THEN Fail(S, r, "P2002")
  ELSE IF r.boardId \notin boardIds(S) \/ r.targetUserId \notin userIds(S)
    THEN Fail(S, r, "P2003")
  ELSE LET m == [userId |-> r.targetUserId, boardId |-> r.boardId, role |-> r.role]
       IN Return([S EXCEPT !.memberships = @ \cup {m}], r, <<memberView(m)>>)

\* prisma.membership.update({where: {userId_boardId}, data: {role}})
membership_update(S, r) ==
  LET old == membership_findUnique(S, r.targetUserId, r.boardId)
      new == {[m EXCEPT !.role = r.role] : m \in old}
  IN IF old = {} THEN Fail(S, r, "P2025")
     ELSE Return([S EXCEPT !.memberships = (@ \ old) \cup new], r,
                 <<memberView(CHOOSE m \in new : TRUE)>>)

\* Mutant of membership_delete: the delete re-checks, in the same store call,
\* that it does not take the board's last OWNER.
membership_delete_guarded(S, r) ==
  LET old == membership_findUnique(S, r.targetUserId, r.boardId)
  IN IF old = {} THEN Fail(S, r, "P2025")
     ELSE IF old = {m \in S.memberships : m.boardId = r.boardId /\ m.role = "OWNER"}
       THEN Throw(S, r, "Error", "Cannot remove the last owner")
     ELSE Return([S EXCEPT !.memberships = @ \ old], r, <<>>)

\* prisma.membership.delete({where: {userId_boardId}})
membership_delete(S, r) ==
  LET old == membership_findUnique(S, r.targetUserId, r.boardId)
  IN IF old = {} THEN Fail(S, r, "P2025")
     ELSE Return([S EXCEPT !.memberships = @ \ old], r, <<>>)

\* Mutant of currentMembership: only an OWNER passes the role check.
currentMembership_ownerOnly(S, r, verb, next) ==
  LET found == membership_findUnique(S, r.userId, r.boardId)
  IN IF found = {} THEN Throw(S, r, "Error", "Board not found or access denied")
     ELSE IF \E m \in found : m.role # "OWNER"
       THEN Throw(S, r, "Error", verb)
     ELSE Goto(S, r, next)

\* The first store call of addMember, updateMemberRole and removeMember: the
\* acting user's membership, then the two checks on it.
currentMembership(S, r, verb, next) ==
  LET found == membership_findUnique(S, r.userId, r.boardId)
  IN IF found = {} THEN Throw(S, r, "Error", "Board not found or access denied")
     ELSE IF \E m \in found : m.role = "MEMBER"
       THEN Throw(S, r, "Error", verb)
     ELSE Goto(S, r, next)

\* The target's membership, then the last-owner branch: an OWNER target goes
\* through the count, any other target straight to the write.
targetMembership(S, r, write) ==
  LET found == membership_findUnique(S, r.targetUserId, r.boardId)
  IN IF found = {} THEN Throw(S, r, "Error", "Member not found")
     ELSE IF \E m \in found : m.role = "OWNER" THEN Goto(S, r, "count")
     ELSE Goto(S, r, write)

\* Mutants of ownerCount: the check dropped; the check off by one.
ownerCount_unchecked(S, r, message, write) ==
  Goto(S, [r EXCEPT !.ownerCount = membership_count(S, r.boardId, "OWNER")], write)
ownerCount_offByOne(S, r, message, write) ==
  LET n == membership_count(S, r.boardId, "OWNER")
  IN IF n <= 2 THEN Throw(S, [r EXCEPT !.ownerCount = n], "Error", message)
     ELSE Goto(S, [r EXCEPT !.ownerCount = n], write)

\* prisma.membership.count of the board's OWNERs, then the check on it.
ownerCount(S, r, message, write) ==
  LET n == membership_count(S, r.boardId, "OWNER")
  IN IF n = 1 THEN Throw(S, [r EXCEPT !.ownerCount = n], "Error", message)
     ELSE Goto(S, [r EXCEPT !.ownerCount = n], write)

\* getBoardMembers: the caller's membership, then the board's memberships
\* (joinedAt, which orders them, is not modelled: the value is read as a set).
getBoardMembers(S, r) ==
  CASE r.pc = "start" ->
         IF membership_findUnique(S, r.userId, r.boardId) = {}
           THEN Throw(S, r, "Error", "Board not found or access denied")
         ELSE Goto(S, r, "findMany")
    [] r.pc = "findMany" ->
         Return(S, r, setToSeq({memberView(m) :
                                  m \in {x \in S.memberships : x.boardId = r.boardId}}))

addMember(S, r) ==
  CASE r.pc = "start" ->
         currentMembership(S, r, "Only owners and maintainers can add members", "findUser")
    [] r.pc = "findUser" ->
         IF r.targetUserId \notin userIds(S) THEN Throw(S, r, "Error", "User not found")
         ELSE Goto(S, r, "findExisting")
    [] r.pc = "findExisting" ->
         IF membership_findUnique(S, r.targetUserId, r.boardId) # {}
           THEN Throw(S, r, "Error", "User is already a member of this board")
         ELSE Goto(S, r, "create")
    [] r.pc = "create" -> membership_create(S, r)

updateMemberRole(S, r) ==
  CASE r.pc = "start" ->
         currentMembership(S, r, "Only owners and maintainers can update member roles",
                           "findTarget")
    [] r.pc = "findTarget" -> targetMembership(S, r, "update")
    [] r.pc = "count" ->
         ownerCount(S, r, "Cannot change the role of the last owner", "update")
    [] r.pc = "update" -> membership_update(S, r)

removeMember(S, r) ==
  CASE r.pc = "start" ->
         currentMembership(S, r, "Only owners and maintainers can remove members",
                           "findTarget")
    [] r.pc = "findTarget" -> targetMembership(S, r, "delete")
    [] r.pc = "count" -> ownerCount(S, r, "Cannot remove the last owner", "delete")
    [] r.pc = "delete" -> membership_delete(S, r)

(***************************************************************************)
(* BoardService.  Its failures are the typed errors.                       *)
(***************************************************************************)

\* Mutant of boardsOf: the where clause on userId dropped.
boardsOf_everyBoard(S, seq, u) ==
  [i \in 1..Len(seq) |-> [id |-> seq[i].id, name |-> seq[i].name, role |-> "OWNER"]]

RECURSIVE boardsOf(_, _, _)
\* membership.findMany({where: {userId}, include: {board}, orderBy:
\* {board: {updatedAt: 'desc'}}}), mapped to {id, name, role}.
boardsOf(S, seq, u) ==
  IF seq = <<>> THEN <<>>
  ELSE LET b == Head(seq)
           rows == setToSeq(membership_findUnique(S, u, b.id))
       IN [i \in 1..Len(rows) |-> [id |-> b.id, name |-> b.name, role |-> rows[i].role]]
          \o boardsOf(S, Tail(seq), u)

getUserBoards(S, r) == Return(S, r, boardsOf(S, S.boards, r.userId))

\* Mutant of getBoard: a non-member is told that the board exists.
getBoard_leaky(S, r) ==
  LET found == membership_findUnique(S, r.userId, r.boardId)
  IN IF found = {}
       THEN IF r.boardId \in boardIds(S)
              THEN Throw(S, r, "ForbiddenError", "Access forbidden")
            ELSE Throw(S, r, "NotFoundError", "Board not found or access denied")
     ELSE LET m == CHOOSE x \in found : TRUE
              b == CHOOSE x \in {S.boards[i] : i \in 1..Len(S.boards)} : x.id = r.boardId
          IN Return(S, r, <<[id |-> b.id, name |-> b.name, role |-> m.role]>>)

getBoard(S, r) ==
  LET found == membership_findUnique(S, r.userId, r.boardId)
  IN IF found = {} THEN Throw(S, r, "NotFoundError", "Board not found or access denied")
     ELSE LET m == CHOOSE x \in found : TRUE
              b == CHOOSE x \in {S.boards[i] : i \in 1..Len(S.boards)} : x.id = r.boardId
          IN Return(S, r, <<[id |-> b.id, name |-> b.name, role |-> m.role]>>)

\* Mutant of createBoard: the nested membership create dropped.
createBoard_noOwner(S, r) ==
  LET id == S.nextBoard + 1
      b == [id |-> id, name |-> r.data.name]
  IN Return([S EXCEPT !.boards = <<b>> \o @, !.nextBoard = id], r, <<b>>)

\* prisma.board.create with the nested membership: one store call, which the
\* store runs as one transaction.
createBoard(S, r) ==
  LET id == S.nextBoard + 1
      b == [id |-> id, name |-> r.data.name]
  IN IF r.userId \notin userIds(S) THEN Fail(S, r, "P2003") ELSE
     Return([S EXCEPT !.boards = <<b>> \o @,
                      !.memberships = @ \cup {[userId |-> r.userId, boardId |-> id,
                                               role |-> "OWNER"]},
                      !.nextBoard = id],
            r, <<b>>)

\* prisma.board.update({where: {id}, data: {name}}); updatedAt becomes now.
board_update(S, r) ==
  IF r.boardId \notin boardIds(S) THEN Fail(S, r, "P2025")
  ELSE LET old == CHOOSE x \in {S.boards[i] : i \in 1..Len(S.boards)} : x.id = r.boardId
           b == IF r.data.name = Undefined THEN old ELSE [old EXCEPT !.name = r.data.name]
       IN Return([S EXCEPT !.boards = <<b>> \o without(@, r.boardId)], r, <<b>>)

\* Mutant of board_delete: the foreign keys without ON DELETE CASCADE.
board_delete_noCascade(S, r) ==
  IF r.boardId \notin boardIds(S) THEN Fail(S, r, "P2025")
  ELSE Return([S EXCEPT !.boards = without(@, r.boardId)], r, <<>>)

\* prisma.board.delete({where: {id}}); ON DELETE CASCADE removes the board's
\* Membership and Task rows.
board_delete(S, r) ==
  IF r.boardId \notin boardIds(S) THEN Fail(S, r, "P2025")
  ELSE Return([S EXCEPT !.boards = without(@, r.boardId),
                        !.memberships = {m \in @ : m.boardId # r.boardId},
                        !.tasks = {k \in @ : k.boardId # r.boardId}],
              r, <<>>)

updateBoard(S, r) ==
  CASE r.pc = "start" ->
         LET found == membership_findUnique(S, r.userId, r.boardId)
         IN IF found = {}
              THEN Throw(S, r, "NotFoundError", "Board not found or access denied")
            ELSE IF \E m \in found : m.role = "MEMBER"
              THEN Throw(S, r, "ForbiddenError",
                         "Only owners and maintainers can update boards")
            ELSE Goto(S, r, "update")
    [] r.pc = "update" -> board_update(S, r)

\* Mutant of deleteBoard: the MAINTAINER role let through.
deleteBoard_managers(S, r) ==
  CASE r.pc = "start" ->
         LET found == membership_findUnique(S, r.userId, r.boardId)
         IN IF found = {}
              THEN Throw(S, r, "NotFoundError", "Board not found or access denied")
            ELSE IF \E m \in found : m.role = "MEMBER"
              THEN Throw(S, r, "ForbiddenError", "Only owners can delete boards")
            ELSE Goto(S, r, "delete")
    [] r.pc = "delete" -> board_delete(S, r)

deleteBoard(S, r) ==
  CASE r.pc = "start" ->
         LET found == membership_findUnique(S, r.userId, r.boardId)
         IN IF found = {}
              THEN Throw(S, r, "NotFoundError", "Board not found or access denied")
            ELSE IF \E m \in found : m.role # "OWNER"
              THEN Throw(S, r, "ForbiddenError", "Only owners can delete boards")
            ELSE Goto(S, r, "delete")
    [] r.pc = "delete" -> board_delete(S, r)

(***************************************************************************)
(* TaskService.  Its failures are the typed errors.                        *)
(***************************************************************************)
\* verifyBoardAccess: the caller's membership, kept for the delete rule.
verifyBoardAccess(S, r, next) ==
  LET found == membership_findUnique(S, r.userId, r.boardId)
  IN IF found = {} THEN Throw(S, r, "NotFoundError", "Board not found or access denied")
     ELSE Goto(S, [r EXCEPT !.membership = found], next)

\* A JavaScript value that is truthy (`if (data.assignedTo)`).
truthy(v) == v \notin {Undefined, Null, ""}

\* Mutant of assigneeMembership: the check on the lookup's result dropped.
assigneeMembership_unchecked(S, r, next) == Goto(S, r, next)

\* The assignee's membership on the board, then the check on it.
assigneeMembership(S, r, next) ==
  IF membership_findUnique(S, r.data.assignedTo, r.boardId) = {}
    THEN Throw(S, r, "BadRequestError", "Assigned user is not a member of this board")
  ELSE Goto(S, r, next)

\* prisma.task.create; a column whose value is undefined takes its default.
\* title is a required String and status a TaskStatus.
task_create(S, r) ==
  IF r.data.title = Undefined THEN Invalid(S, r, "Argument title is missing.")
  ELSE IF r.data.title = Null THEN Invalid(S, r, "Argument title must not be null.")
  ELSE IF truthy(r.data.status) /\ r.data.status \notin TaskStatus
    THEN Invalid(S, r, "Invalid value for argument status. Expected TaskStatus.")
  ELSE IF r.boardId \notin boardIds(S) THEN Fail(S, r, "P2003")
  ELSE IF r.userId \notin userIds(S) THEN Fail(S, r, "P2003")
  ELSE IF r.data.assignedTo \notin {Undefined, Null} /\ r.data.assignedTo \notin userIds(S)
    THEN Fail(S, r, "P2003")
  ELSE LET id == S.nextTask + 1
           k == [id |-> id, boardId |-> r.boardId, createdBy |-> r.userId,
                 assignedTo |-> IF r.data.assignedTo = Undefined THEN Null
                                ELSE r.data.assignedTo,
                 title |-> r.data.title,
                 description |-> IF r.data.description = Undefined THEN Null
                                 ELSE r.data.description,
                 status |-> IF truthy(r.data.status) THEN r.data.status ELSE "TODO"]
       IN Return([S EXCEPT !.tasks = @ \cup {k}, !.nextTask = id], r, <<k>>)

\* One column of prisma.task.update: undefined leaves the column alone.
\* Mutant of column: an undefined field overwrites the stored value.
column_overwrite(old, new) == new

column(old, new) == IF new = Undefined THEN old ELSE new

\* prisma.task.update({where: {id}, data}); title and status are columns that
\* cannot be null, and status is a TaskStatus.
task_update(S, r) ==
  LET old == {k \in S.tasks : k.id = r.taskId}
      new == {[k EXCEPT !.title = column(@, r.data.title),
                        !.description = column(@, r.data.description),
                        !.status = column(@, r.data.status),
                        !.assignedTo = column(@, r.data.assignedTo)] : k \in old}
  IN IF r.data.title = Null THEN Invalid(S, r, "Argument title must not be null.")
     ELSE IF r.data.status = Null
       THEN Invalid(S, r, "Argument status must not be null.")
     ELSE IF r.data.status \notin TaskStatus \cup {Undefined}
       THEN Invalid(S, r, "Invalid value for argument status. Expected TaskStatus.")
     ELSE IF old = {} THEN Fail(S, r, "P2025")
     ELSE IF \E k \in new : k.assignedTo # Null /\ k.assignedTo \notin userIds(S)
       THEN Fail(S, r, "P2003")
     ELSE Return([S EXCEPT !.tasks = (@ \ old) \cup new], r, setToSeq(new))

\* prisma.task.delete({where: {id}})
task_delete(S, r) ==
  LET old == {k \in S.tasks : k.id = r.taskId}
  IN IF old = {} THEN Fail(S, r, "P2025")
     ELSE Return([S EXCEPT !.tasks = @ \ old], r, <<>>)

\* getBoardTasks: the access check, then the board's tasks (createdAt, which
\* orders them, is not modelled: the value is read as a set).
getBoardTasks(S, r) ==
  CASE r.pc = "start" -> verifyBoardAccess(S, r, "findMany")
    [] r.pc = "findMany" ->
         Return(S, r, setToSeq({k \in S.tasks : k.boardId = r.boardId}))

createTask(S, r) ==
  CASE r.pc = "start" ->
         verifyBoardAccess(S, r, IF truthy(r.data.assignedTo) THEN "findAssignee"
                                 ELSE "create")
    [] r.pc = "findAssignee" -> assigneeMembership(S, r, "create")
    [] r.pc = "create" -> task_create(S, r)

updateTask(S, r) ==
  CASE r.pc = "start" -> verifyBoardAccess(S, r, "findTask")
    [] r.pc = "findTask" ->
         IF task_findFirst(S, r.taskId, r.boardId) = {}
           THEN Throw(S, r, "NotFoundError", "Task not found")
         ELSE IF r.data.assignedTo # Undefined /\ r.data.assignedTo # Null
           THEN Goto(S, r, "findAssignee")
         ELSE Goto(S, r, "update")
    [] r.pc = "findAssignee" -> assigneeMembership(S, r, "update")
    [] r.pc = "update" -> task_update(S, r)

\* Mutant of canDelete: the MAINTAINER role left out.
canDelete_noMaintainer(existingTask, membership, userId) ==
  \/ existingTask.createdBy = userId
  \/ membership.role = "OWNER"

\* The delete rule: the task's creator, or an OWNER or MAINTAINER of the board.
canDelete(existingTask, membership, userId) ==
  \/ existingTask.createdBy = userId
  \/ membership.role = "OWNER"
  \/ membership.role = "MAINTAINER"

deleteTask(S, r) ==
  CASE r.pc = "start" -> verifyBoardAccess(S, r, "findTask")
    [] r.pc = "findTask" ->
         LET found == task_findFirst(S, r.taskId, r.boardId)
         IN IF found = {} THEN Throw(S, r, "NotFoundError", "Task not found")
            ELSE IF ~ \E k \in found, m \in r.membership : canDelete(k, m, r.userId)
              THEN Throw(S, r, "ForbiddenError",
                         "Only task creator, owners and maintainers can delete tasks")
            ELSE Goto(S, r, "delete")
    [] r.pc = "delete" -> task_delete(S, r)

(***************************************************************************)
(* MembershipService.searchUsers.  Names and emails are strings of         *)
(* characters; `contains` is SQLite's LIKE, which folds the case of ASCII   *)
(* letters, and the order is SQLite's binary collation.                    *)
(***************************************************************************)
\* The name and the e-mail address of each person.
nameOf(u) ==
  CASE u = "u1" -> <<"A", "b">>
    [] u = "u2" -> <<"b", " ", "a", "b">>
    [] u = "u3" -> <<"B", "a">>
    [] OTHER -> <<>>
emailOf(u) ==
  CASE u = "u1" -> <<"a", "@", "x">>
    [] u = "u2" -> <<"b", "@", "x">>
    [] u = "u3" -> <<"z", "a", "b", "@", "x">>
    [] OTHER -> <<>>

\* String.prototype.trim
RECURSIVE trimStart(_)
trimStart(chars) ==
  IF chars # <<>> /\ Head(chars) = " " THEN trimStart(Tail(chars)) ELSE chars
RECURSIVE trimEnd(_)
trimEnd(chars) ==
  IF chars # <<>> /\ chars[Len(chars)] = " "
    THEN trimEnd(SubSeq(chars, 1, Len(chars) - 1))
  ELSE chars
trimChars(chars) == trimEnd(trimStart(chars))

\* The character LIKE compares: ASCII letters without their case.
lower(c) ==
  CASE c = "A" -> "a"
    [] c = "B" -> "b"
    [] OTHER -> c

\* {contains: query}: text LIKE '%query%'
contains(text, query) ==
  \E i \in 1..(Len(text) - Len(query) + 1) :
    \A j \in 1..Len(query) : lower(text[i + j - 1]) = lower(query[j])

\* The byte of a character, and the order of two strings by their bytes.
byte(c) ==
  CASE c = " " -> 32
    [] c = "@" -> 64
    [] c = "A" -> 65
    [] c = "B" -> 66
    [] c = "a" -> 97
    [] c = "b" -> 98
    [] c = "x" -> 120
    [] c = "z" -> 122
RECURSIVE before(_, _)
before(a, b) ==
  IF a = <<>> THEN b # <<>>
  ELSE IF b = <<>> THEN FALSE
  ELSE IF byte(Head(a)) # byte(Head(b)) THEN byte(Head(a)) < byte(Head(b))
  ELSE before(Tail(a), Tail(b))

\* orderBy: {name: 'asc'}
RECURSIVE orderByName(_)
orderByName(rows) ==
  IF rows = {} THEN <<>>
  ELSE LET first == CHOOSE x \in rows :
                      \A y \in rows \ {x} : before(x.name, y.name)
       IN <<first>> \o orderByName(rows \ {first})

\* take: n rows from the start of the list, or -n rows from its end when n
\* is negative.
take(rows, n) ==
  IF n >= 0 THEN SubSeq(rows, 1, IF n < Len(rows) THEN n ELSE Len(rows))
  ELSE SubSeq(rows, (IF -n < Len(rows) THEN Len(rows) + n ELSE 0) + 1, Len(rows))

\* select: {id, email, name}
userView(x) == [id |-> x.id, email |-> x.email, name |-> x.name]

user_findMany(S, r) ==
  LET found == {x \in S.users :
                  /\ x.id # r.userId
                  /\ \/ contains(x.email, r.data.query.chars)
                     \/ contains(x.name, r.data.query.chars)}
      rows == take(orderByName(found), r.data.limit)
  IN Return(S, r, [i \in 1..Len(rows) |-> userView(rows[i])])

searchUsers(S, r) ==
  CASE r.pc = "start" ->
         IF \/ r.data.query.form = "undefined"
            \/ r.data.query.chars = <<>>
            \/ Len(trimChars(r.data.query.chars)) < 2
           THEN Return(S, r, <<>>)
         ELSE Goto(S, r, "findMany")
    [] r.pc = "findMany" -> user_findMany(S, r)

(***************************************************************************)
(* AuthService.  Time is counted in days.  A token is what jwt.sign makes  *)
(* of a payload: the payload, the key that signed it, and the iat and exp  *)
(* claims; a string that is no JWT has the form "garbage" when it has not  *)
(* three parts and "undecodable" when it has.                              *)
(***************************************************************************)
JWT_SECRET == "your-secret-key-change-in-production"
JWT_EXPIRES_IN == 7

NoPayload == [userId |-> "", email |-> <<>>]
NoToken == [form |-> "none", payload |-> NoPayload, key |-> "", iat |-> 0, exp |-> 0]
Garbage == [NoToken EXCEPT !.form = "garbage"]
\* A string of three dot-separated parts that do not decode ('a.b.c').
Undecodable == [NoToken EXCEPT !.form = "undecodable"]

\* jwt.sign(payload, secret, {expiresIn})
jwt_sign(payload, secret, expiresIn, now) ==
  [form |-> "jwt", payload |-> payload, key |-> secret, iat |-> now,
   exp |-> now + expiresIn]

generateToken(payload, now) == jwt_sign(payload, JWT_SECRET, JWT_EXPIRES_IN, now)

\* bcrypt.hash(password, 10) and bcrypt.compare(password, hash): a hash is
\* matched by the password it was made of and by no other.
bcrypt_hash(password) == <<"$2b$10$", password>>
bcrypt_compare(password, hash) == hash = bcrypt_hash(password)

\* The id the store gives the User row of an address.
idOf(email) == CHOOSE u \in Users : emailOf(u) = email

\* The AuthResponse for User row x: a token signed now, and the row's view.
authResponse(x, now) ==
  [token |-> generateToken([userId |-> x.id, email |-> x.email], now),
   user |-> userView(x)]

\* prisma.user.create, then the token for the new row; the unique index on
\* email is checked by the store.
user_create(S, r) ==
  IF user_findUnique(S, r.data.email) # {} THEN Fail(S, r, "P2002")
  ELSE LET x == [id |-> idOf(r.data.email), email |-> r.data.email,
                 name |-> r.data.userName, password |-> r.hashedPassword]
       IN Return([S EXCEPT !.users = @ \cup {x}], r, <<authResponse(x, S.now)>>)

\* register awaits the lookup by email, the hash and the create.
register(S, r) ==
  CASE r.pc = "start" ->
         IF user_findUnique(S, r.data.email) # {}
           THEN Throw(S, r, "Error", "Email already exists")
         ELSE Goto(S, r, "hash")
    [] r.pc = "hash" ->
         Goto(S, [r EXCEPT !.hashedPassword = bcrypt_hash(r.data.password)], "create")
    [] r.pc = "create" -> user_create(S, r)

\* login awaits the lookup by email and the comparison, and signs the token
\* when the comparison has answered.
login(S, r) ==
  CASE r.pc = "start" ->
         LET found == user_findUnique(S, r.data.email)
         IN IF found = {} THEN Throw(S, r, "Error", "Invalid credentials")
            ELSE Goto(S, [r EXCEPT !.user = found], "compare")
    [] r.pc = "compare" ->
         LET x == CHOOSE y \in r.user : TRUE
         IN IF ~ bcrypt_compare(r.data.password, x.password)
              THEN Throw(S, r, "Error", "Invalid credentials")
            ELSE Return(S, r, <<authResponse(x, S.now)>>)

\* The catch blocks of AuthController.register and AuthController.login.
authError(e) ==
  IF e.message = "Email already exists" THEN [status |-> 409, error |-> e.message]
  ELSE IF e.message = "Invalid credentials" THEN [status |-> 401, error |-> e.message]
  ELSE [status |-> 500, error |-> "Internal server error"]

(***************************************************************************)
(* A request's next store call, and a request run to its end.              *)
(***************************************************************************)
step(S, r) ==
  CASE r.op = "getBoards" -> getUserBoards(S, r)
    [] r.op = "getBoard" -> getBoard(S, r)
    [] r.op = "createBoard" -> createBoard(S, r)
    [] r.op = "updateBoard" -> updateBoard(S, r)
    [] r.op = "deleteBoard" -> deleteBoard(S, r)
    [] r.op = "getBoardMembers" -> getBoardMembers(S, r)
    [] r.op = "addMember" -> addMember(S, r)
    [] r.op = "updateMemberRole" -> updateMemberRole(S, r)
    [] r.op = "removeMember" -> removeMember(S, r)
    [] r.op = "getTasks" -> getBoardTasks(S, r)
    [] r.op = "createTask" -> createTask(S, r)
    [] r.op = "updateTask" -> updateTask(S, r)
    [] r.op = "deleteTask" -> deleteTask(S, r)
    [] r.op = "searchUsers" -> searchUsers(S, r)
    [] r.op = "register" -> register(S, r)
    [] r.op = "login" -> login(S, r)

RECURSIVE run(_, _)
run(S, r) ==
  IF r.pc = "done" THEN [S |-> S, r |-> r]
  ELSE LET o == step(S, r) IN run(o.S, o.r)

\* The status a route answers with on success.
success(op) ==
  IF op \in {"createBoard", "addMember", "createTask", "register"} THEN 201
  ELSE IF op \in {"deleteBoard", "removeMember", "deleteTask"} THEN 204
  ELSE 200

\* The controller's answer to request r once the service has finished.
response(r) ==
  IF r.op \in {"register", "login"} /\ r.res.state = "error" THEN authError(r.res)
  ELSE respond(r.res, success(r.op))

(***************************************************************************)
(* The requests a client can send (the controllers have validated them).   *)
(***************************************************************************)
boardData(name) == [NoData EXCEPT !.name = name]
taskData(title, status, assignedTo) ==
  [NoData EXCEPT !.title = title, !.status = status, !.assignedTo = assignedTo]

reqGetBoards(u) == NewReq("getBoards", u, 0, "", "", 0, NoData)
reqGetBoard(u, b) == NewReq("getBoard", u, b, "", "", 0, NoData)
reqCreateBoard(u, name) == NewReq("createBoard", u, 0, "", "", 0, boardData(name))
reqUpdateBoard(u, b, name) == NewReq("updateBoard", u, b, "", "", 0, boardData(name))
reqDeleteBoard(u, b) == NewReq("deleteBoard", u, b, "", "", 0, NoData)
reqGetBoardMembers(u, b) == NewReq("getBoardMembers", u, b, "", "", 0, NoData)
reqAddMember(u, b, t, role) == NewReq("addMember", u, b, t, role, 0, NoData)
reqUpdateMemberRole(u, b, t, role) == NewReq("updateMemberRole", u, b, t, role, 0, NoData)
reqRemoveMember(u, b, t) == NewReq("removeMember", u, b, t, "", 0, NoData)
reqGetTasks(u, b) == NewReq("getTasks", u, b, "", "", 0, NoData)
reqCreateTask(u, b, data) == NewReq("createTask", u, b, "", "", 0, data)
reqUpdateTask(u, b, k, data) == NewReq("updateTask", u, b, "", "", k, data)
reqDeleteTask(u, b, k) == NewReq("deleteTask", u, b, "", "", k, NoData)
\* POST /api/auth/register and /login carry no caller; u is the person.
reqRegister(u, password) ==
  NewReq("register", "", 0, "", "", 0,
         [NoData EXCEPT !.email = emailOf(u), !.userName = nameOf(u),
                        !.password = password])
reqLogin(u, password) ==
  NewReq("login", "", 0, "", "", 0,
         [NoData EXCEPT !.email = emailOf(u), !.password = password])

\* The optional fields of a task request.
\* req.query.limit: absent, or a numeral.
NoLimit == [form |-> "undefined", n |-> 0]
Limit(n) == [form |-> "string", n |-> n]
\* req.query.limit ? parseInt(req.query.limit, 10) : 10
parseLimit(limit) == IF limit.form = "undefined" THEN DefaultLimit ELSE limit.n
reqSearchUsers(u, query, limit) ==
  NewReq("searchUsers", u, 0, "", "", 0,
         [NoData EXCEPT !.query = query, !.limit = parseLimit(limit)])

\* What a request can give as assignedTo besides null: a user id, nothing, or
\* the empty string.
Assignees == UserIds \cup {Undefined, ""}
\* The assignees of the tasks created under TaskSpec and CrossSpec.
TaskAssignees == {Undefined, "u3"}
CrossAssignees == {Undefined, "u3"}
NewStatus == {Undefined}

(***************************************************************************)
(* The authentication middleware.                                          *)
(***************************************************************************)
\* Mutant of jwt_verify: the exp claim ignored.
jwt_verify_noExpiry(token, secret, now) ==
  IF token.form = "jwt" /\ token.key = secret THEN Ok(token.payload)
  ELSE Error("JsonWebTokenError", "invalid token")

\* jwt.verify(token, secret): the payload of a well-formed token signed with
\* the secret and not past its exp; it throws otherwise.  A string that has
\* not three parts is malformed; three parts that do not decode are invalid.
jwt_verify(token, secret, now) ==
  IF token.form = "undecodable" THEN Error("JsonWebTokenError", "invalid token")
  ELSE IF token.form # "jwt" THEN Error("JsonWebTokenError", "jwt malformed")
  ELSE IF token.key # secret THEN Error("JsonWebTokenError", "invalid signature")
  ELSE IF now >= token.exp THEN Error("TokenExpiredError", "jwt expired")
  ELSE Ok(token.payload)

verifyToken(token, now) ==
  LET v == jwt_verify(token, JWT_SECRET, now)
  IN IF v.state = "ok" THEN v ELSE Error("Error", "Invalid token")

\* The Authorization header, split at spaces: <<>> when it is absent,
\* <<"Bearer">> when nothing follows the scheme, <<"Bearer", token>>.
NoHeader == <<>>
Bearer(token) == <<"Bearer", token>>

\* authenticateToken: next is TRUE when the request goes on to its controller
\* with req.user = the verified payload.
authenticateToken(header, now) ==
  IF Len(header) < 2
    THEN [next |-> FALSE, user |-> NoPayload,
          response |-> [status |-> 401, error |-> "Access token required"]]
  ELSE LET v == verifyToken(header[2], now)
       IN IF v.state = "ok"
            THEN [next |-> TRUE, user |-> v.value,
                  response |-> [status |-> 200, error |-> ""]]
          ELSE [next |-> FALSE, user |-> NoPayload,
                response |-> [status |-> 403, error |-> "Invalid or expired token"]]

\* req.user?.id
userIdOf(user) == IF "id" \in DOMAIN user THEN user.id ELSE Undefined

\* A request to a protected route: the middleware, then the controller, which
\* reads the caller from req.user and calls the service.
http(S, header, now, r) ==
  LET a == authenticateToken(header, now)
      userId == userIdOf(a.user)
      o == run(S, [r EXCEPT !.userId = userId])
  IN IF ~ a.next THEN [S |-> S, response |-> a.response, controller |-> FALSE]
     ELSE IF ~ truthy(userId)
       THEN [S |-> S, controller |-> TRUE,
             response |-> mapError(Error("UnauthorizedError", "Unauthorized"))]
     ELSE [S |-> o.S, response |-> response(o.r), controller |-> TRUE]

(***************************************************************************)
(* Requests in flight together.  Each user has at most one request in      *)
(* flight, at most MaxInFlight users at once.  A step of a request is its  *)
(* next store call with the synchronous code that follows it: the service  *)
(* awaits every store call, and the steps of other requests run in         *)
(* between.  An action named after an operation is the arrival of such a   *)
(* request with its first store call (until that call the request has      *)
(* touched nothing); the Step actions are its later store calls.  n bounds *)
(* the boards ever created; requests name the board ids 1..n, which covers *)
(* boards that exist, that were deleted and that were never created.       *)
(***************************************************************************)
commit(S) ==
  /\ boards' = S.boards
  /\ memberships' = S.memberships
  /\ tasks' = S.tasks
  /\ nextBoard' = S.nextBoard
  /\ nextTask' = S.nextTask
  /\ users' = S.users
  /\ UNCHANGED clock

\* The tokens the clients hold once u's request is at r: an answered register
\* or login hands its token to u's client.
received(u, r) ==
  IF r.pc = "done" /\ r.op \in {"register", "login"} /\ r.res.state = "ok"
    THEN [tokens EXCEPT ![u] = r.res.value[1].token]
  ELSE tokens

quiet == \A u \in Users : reqs[u].op = "idle"

inFlight == {u \in Users : reqs[u].op # "idle"}

\* The request's slot after a step: free again once the response is sent.
slot(r) == IF r.pc = "done" THEN Idle ELSE r

\* u's request r arrives and makes its first store call.
arrive(u, r) ==
  /\ reqs[u].op = "idle"
  /\ Cardinality(inFlight) < MaxInFlight
  /\ LET o == step(Store, r)
     IN /\ commit(o.S)
        /\ reqs' = [reqs EXCEPT ![u] = slot(o.r)]
        /\ tokens' = received(u, o.r)

\* The next store call of u's request.
advance(u) ==
  LET o == step(Store, reqs[u])
  IN /\ commit(o.S)
     /\ reqs' = [reqs EXCEPT ![u] = slot(o.r)]
     /\ tokens' = received(u, o.r)

GetBoards ==
  /\ \E u \in Users : arrive(u, reqGetBoards(u))

GetBoard(n) ==
  /\ \E u \in Users, b \in 1..n : arrive(u, reqGetBoard(u, b))

CreateBoard(n) ==
  /\ nextBoard < n
  /\ \E u \in Users, name \in NewNames : arrive(u, reqCreateBoard(u, name))

UpdateBoard(n) ==
  /\ \E u \in Users, b \in 1..n, name \in Names \ NewNames :
       arrive(u, reqUpdateBoard(u, b, name))

DeleteBoard(n) ==
  /\ \E u \in Users, b \in 1..n : arrive(u, reqDeleteBoard(u, b))

GetBoardMembers(n) ==
  /\ \E u \in Users, b \in 1..n : arrive(u, reqGetBoardMembers(u, b))

AddMember(n, roles) ==
  /\ \E u \in Users, b \in 1..n, t \in Users, role \in roles :
       arrive(u, reqAddMember(u, b, t, role))

UpdateMemberRole(n) ==
  /\ \E u \in Users, b \in 1..n, t \in Users, role \in Roles :
       arrive(u, reqUpdateMemberRole(u, b, t, role))

RemoveMember(n) ==
  /\ \E u \in Users, b \in 1..n, t \in Users : arrive(u, reqRemoveMember(u, b, t))

GetTasks(n) ==
  /\ \E u \in Users, b \in 1..n : arrive(u, reqGetTasks(u, b))

CreateTask(n, max, assignees) ==
  /\ nextTask < max
  /\ \E u \in Users, b \in 1..n, title \in Titles, st \in NewStatus, a \in assignees :
       arrive(u, reqCreateTask(u, b, taskData(title, st, a)))

UpdateTask(n, max, assignees) ==
  /\ \E u \in Users, b \in 1..n, k \in 1..max, st \in NewStatus, a \in assignees :
       arrive(u, reqUpdateTask(u, b, k, taskData(Undefined, st, a)))

DeleteTask(n, max) ==
  /\ \E u \in Users, b \in 1..n, k \in 1..max : arrive(u, reqDeleteTask(u, b, k))

StepUpdateBoard(u) ==
  /\ reqs[u].op = "updateBoard"
  /\ advance(u)

StepDeleteBoard(u) ==
  /\ reqs[u].op = "deleteBoard"
  /\ advance(u)

StepGetBoardMembers(u) ==
  /\ reqs[u].op = "getBoardMembers"
  /\ advance(u)

StepAddMember(u) ==
  /\ reqs[u].op = "addMember"
  /\ advance(u)

StepUpdateMemberRole(u) ==
  /\ reqs[u].op = "updateMemberRole"
  /\ advance(u)

StepRemoveMember(u) ==
  /\ reqs[u].op = "removeMember"
  /\ advance(u)

StepGetTasks(u) ==
  /\ reqs[u].op = "getTasks"
  /\ advance(u)

StepCreateTask(u) ==
  /\ reqs[u].op = "createTask"
  /\ advance(u)

StepUpdateTask(u) ==
  /\ reqs[u].op = "updateTask"
  /\ advance(u)

StepDeleteTask(u) ==
  /\ reqs[u].op = "deleteTask"
  /\ advance(u)

StepSearchUsers(u) ==
  /\ reqs[u].op = "searchUsers"
  /\ advance(u)

\* The password each person registers with, and the passwords tried at login.
Password == "secret1"
Passwords == {Password, "wrong12"}

Register ==
  /\ \E u \in Users : arrive(u, reqRegister(u, Password))

StepRegister(u) ==
  /\ reqs[u].op = "register"
  /\ advance(u)

Login ==
  /\ \E u \in Users, password \in Passwords : arrive(u, reqLogin(u, password))

StepLogin(u) ==
  /\ reqs[u].op = "login"
  /\ advance(u)

\* The database after the migration: every table is empty.
Init ==
  /\ users = {}
  /\ boards = <<>>
  /\ memberships = {}
  /\ tasks = {}
  /\ nextBoard = 0
  /\ nextTask = 0
  /\ reqs = [u \in Users |-> Idle]
  /\ clock = 0
  /\ tokens = [u \in Users |-> NoToken]

\* The User rows once everyone has registered.
Registered ==
  {[id |-> u, email |-> emailOf(u), name |-> nameOf(u),
    password |-> bcrypt_hash(Password)] : u \in Users}

\* Everyone has registered, and nothing else has happened.
UsersInit ==
  /\ users = Registered
  /\ boards = <<>>
  /\ memberships = {}
  /\ tasks = {}
  /\ nextBoard = 0
  /\ nextTask = 0
  /\ reqs = [u \in Users |-> Idle]
  /\ clock = 0
  /\ tokens = [u \in Users |-> NoToken]

\* Memberships of one board.
Next ==
  \/ CreateBoard(SpecBoards)
  \/ DeleteBoard(SpecBoards)
  \/ AddMember(SpecBoards, Roles)
  \/ UpdateMemberRole(SpecBoards)
  \/ RemoveMember(SpecBoards)
  \/ \E u \in Users :
       \/ StepDeleteBoard(u)
       \/ StepAddMember(u)
       \/ StepUpdateMemberRole(u)
       \/ StepRemoveMember(u)

Spec == UsersInit /\ [][Next]_vars

\* Boards: created, read, renamed and deleted, with members added to them.
BoardNext ==
  \/ GetBoards
  \/ GetBoard(MaxBoards)
  \/ CreateBoard(MaxBoards)
  \/ UpdateBoard(MaxBoards)
  \/ DeleteBoard(MaxBoards)
  \/ GetBoardMembers(MaxBoards)
  \/ AddMember(MaxBoards, {"MEMBER"})
  \/ \E u \in Users :
       \/ StepUpdateBoard(u)
       \/ StepDeleteBoard(u)
       \/ StepGetBoardMembers(u)
       \/ StepAddMember(u)

BoardSpec == UsersInit /\ [][BoardNext]_vars

\* Tasks of one board. The board and its members are set up front as
\* createBoard and addMember leave them: u1 created the board and added u2
\* and u3.
TaskInit ==
  /\ users = Registered
  /\ boards = <<[id |-> 1, name |-> "X"]>>
  /\ \E r2 \in {"MAINTAINER", "MEMBER"} :
       memberships = {[userId |-> "u1", boardId |-> 1, role |-> "OWNER"],
                      [userId |-> "u2", boardId |-> 1, role |-> r2],
                      [userId |-> "u3", boardId |-> 1, role |-> "MEMBER"]}
  /\ tasks = {}
  /\ nextBoard = TaskBoards
  /\ nextTask = 0
  /\ reqs = [u \in Users |-> Idle]
  /\ clock = 0
  /\ tokens = [u \in Users |-> NoToken]

TaskNext ==
  \/ GetBoard(TaskBoards)
  \/ DeleteBoard(TaskBoards)
  \/ RemoveMember(TaskBoards)
  \/ GetTasks(TaskBoards)
  \/ CreateTask(TaskBoards, TaskTasks, TaskAssignees)
  \/ UpdateTask(TaskBoards, TaskTasks, {Null})
  \/ DeleteTask(TaskBoards, TaskTasks)
  \/ \E u \in Users :
       \/ StepDeleteBoard(u)
       \/ StepRemoveMember(u)
       \/ StepGetTasks(u)
       \/ StepCreateTask(u)
       \/ StepUpdateTask(u)
       \/ StepDeleteTask(u)

TaskSpec == TaskInit /\ [][TaskNext]_vars

\* Requests one at a time: a request arrives when none is in flight, and runs
\* to its end.
SerialNext ==
  \/ quiet /\ CreateBoard(TaskBoards)
  \/ quiet /\ DeleteBoard(TaskBoards)
  \/ quiet /\ AddMember(TaskBoards, Roles)
  \/ quiet /\ UpdateMemberRole(TaskBoards)
  \/ quiet /\ RemoveMember(TaskBoards)
  \/ quiet /\ CreateTask(TaskBoards, TaskTasks, TaskAssignees)
  \/ quiet /\ UpdateTask(TaskBoards, TaskTasks, {Null})
  \/ quiet /\ DeleteTask(TaskBoards, TaskTasks)
  \/ \E u \in Users :
       \/ StepDeleteBoard(u)
       \/ StepAddMember(u)
       \/ StepUpdateMemberRole(u)
       \/ StepRemoveMember(u)
       \/ StepCreateTask(u)
       \/ StepUpdateTask(u)
       \/ StepDeleteTask(u)

SerialSpec == UsersInit /\ [][SerialNext]_vars

\* Tasks on MaxBoards boards. The boards and their members are set up front as
\* createBoard and addMember leave them: u1 created board 1 and u2 board 2, u3
\* was added to board 1 and u1 to board 2.
CrossInit ==
  /\ users = Registered
  /\ boards = <<[id |-> 2, name |-> "X"], [id |-> 1, name |-> "X"]>>
  /\ memberships = {[userId |-> "u1", boardId |-> 1, role |-> "OWNER"],
                    [userId |-> "u2", boardId |-> 2, role |-> "OWNER"],
                    [userId |-> "u3", boardId |-> 1, role |-> "MEMBER"],
                    [userId |-> "u1", boardId |-> 2, role |-> "MAINTAINER"]}
  /\ tasks = {}
  /\ nextBoard = MaxBoards
  /\ nextTask = 0
  /\ reqs = [u \in Users |-> Idle]
  /\ clock = 0
  /\ tokens = [u \in Users |-> NoToken]

CrossNext ==
  \/ GetBoards
  \/ GetTasks(MaxBoards)
  \/ CreateTask(MaxBoards, MaxTasks, CrossAssignees)
  \/ UpdateTask(MaxBoards, MaxTasks, {Null})
  \/ DeleteTask(MaxBoards, MaxTasks)
  \/ \E u \in Users :
       \/ StepGetTasks(u)
       \/ StepCreateTask(u)
       \/ StepUpdateTask(u)
       \/ StepDeleteTask(u)

CrossSpec == CrossInit /\ [][CrossNext]_vars

\* GET /api/users/search.
Queries ==
  {NoText} \cup
  {Text(chars) : chars \in {<<>>, <<"a">>, <<" ", "a", " ">>, <<"a", "b">>,
                            <<"A", "B">>, <<" ", "a", "b">>, <<"b", "a">>,
                            <<"@", "x">>, <<"z", "z">>, <<"b", " ">>}}
Limits == {NoLimit} \cup {Limit(n) : n \in -1..2}

SearchUsers(u) ==
  /\ \E query \in Queries, limit \in Limits : arrive(u, reqSearchUsers(u, query, limit))

\* People register while others search.
SearchNext ==
  \/ Register
  \/ \E u \in Users :
       \/ SearchUsers(u)
       \/ StepRegister(u)
       \/ StepSearchUsers(u)

SearchSpec == Init /\ [][SearchNext]_vars

(***************************************************************************)
(* AuthSpec: people register and log in, days pass, and requests come to   *)
(* the protected routes with whatever Authorization header the client      *)
(* sends.                                                                  *)
(***************************************************************************)
\* A token signed with another key, for user u.
forged(u, now) ==
  jwt_sign([userId |-> u, email |-> emailOf(u)], "another-key", JWT_EXPIRES_IN, now)

\* The headers a client can send: none, one without a token, one with a
\* string that is no token, with a forged token, or with a token that a
\* client holds.
Headers ==
  {NoHeader, <<"Bearer">>, Bearer(Garbage), Bearer(Undecodable)}
  \cup {Bearer(forged(u, clock)) : u \in Users}
  \cup {Bearer(tokens[v]) : v \in {x \in Users : tokens[x].form = "jwt"}}

\* The requests sent to the protected routes; the caller is filled in by the
\* controller.
AuthRequests ==
  {reqGetBoards(""), reqGetBoard("", 1), reqDeleteBoard("", 1), reqGetBoardMembers("", 1),
   reqGetTasks("", 1)}
  \cup {reqCreateBoard("", name) : name \in NewNames}
  \cup {reqAddMember("", 1, "u2", "MEMBER")}

Tick ==
  /\ clock < MaxClock
  /\ clock' = clock + 1
  /\ UNCHANGED <<users, boards, memberships, tasks, nextBoard, nextTask, reqs, tokens>>

\* A request to a protected route. The middleware and the controller's check
\* of req.user run before the service is called, with no await between them.
Protected ==
  /\ \E header \in Headers, r \in AuthRequests :
       /\ r.op = "createBoard" => nextBoard < MaxBoards
       /\ commit(http(Store, header, clock, r).S)
       /\ UNCHANGED <<reqs, tokens>>

AuthNext ==
  \/ Register
  \/ Login
  \/ Tick
  \/ Protected
  \/ \E u \in Users :
       \/ StepRegister(u)
       \/ StepLogin(u)

AuthSpec == Init /\ [][AuthNext]_vars


(***************************************************************************)
(* Properties.                                                             *)
(***************************************************************************)
ownersOf(S, b) == {m \in S.memberships : m.boardId = b /\ m.role = "OWNER"}
membersOf(S, b) == {m \in S.memberships : m.boardId = b}
isManager(S, u, b) ==
  \E m \in membership_findUnique(S, u, b) : m.role \in {"OWNER", "MAINTAINER"}
\* t is the only OWNER of board b.
soleOwner(S, t, b) ==
  /\ \E m \in ownersOf(S, b) : m.userId = t
  /\ Cardinality(ownersOf(S, b)) = 1
\* Everything but the memberships is as in the current state.
sameBoardsAndTasks(S) ==
  /\ S.boards = boards
  /\ S.tasks = tasks
  /\ S.nextBoard = nextBoard
  /\ S.nextTask = nextTask

\* C1: with requests one at a time, after any sequence of createBoard,
\* addMember, updateMemberRole, removeMember, deleteBoard and task requests,
\* every board that exists has at least one membership with role OWNER.
C1_EveryBoardHasOwner ==
  \A b \in boardIds(Store) : Cardinality(ownersOf(Store, b)) >= 1

\* A board down to its last OWNER, with a MAINTAINER whose request to remove
\* that OWNER is refused, after tasks were created.
C1_LastOwnerKept ==
  \E b \in boardIds(Store), u \in Users, t \in Users :
    /\ soleOwner(Store, t, b)
    /\ \E m \in membership_findUnique(Store, u, b) : m.role = "MAINTAINER"
    /\ run(Store, reqRemoveMember(u, b, t)).r.res.state = "error"
    /\ run(Store, reqUpdateMemberRole(u, b, t, "MEMBER")).r.res.state = "error"
    /\ tasks # {}

\* C3: createBoard(name, U) is a single store call that adds the board and
\* exactly one membership on it, (U, board, OWNER); no other row changes.
C3_CreateBoardAtomic ==
  \A u \in Users, name \in Names :
    LET r == reqCreateBoard(u, name)
        o == step(Store, r)
        id == nextBoard + 1
    IN /\ o.r.pc = "done"
       /\ o.r.res.state = "ok"
       /\ response(o.r).status = 201
       /\ boardIds(o.S) = boardIds(Store) \cup {id}
       /\ id \notin boardIds(Store)
       /\ membersOf(o.S, id) = {[userId |-> u, boardId |-> id, role |-> "OWNER"]}
       /\ o.S.memberships \ membersOf(o.S, id) = memberships
       /\ o.S.tasks = tasks

\* A board that was just created beside an older one: its creator is its only
\* member, as OWNER.
C3_BoardJustCreated ==
  /\ Len(boards) = 2
  /\ \E u \in Users :
       membersOf(Store, nextBoard) = {[userId |-> u, boardId |-> nextBoard, role |-> "OWNER"]}
  /\ Head(boards).id = nextBoard

\* C7: for an actor who is OWNER or MAINTAINER, updateMemberRole and
\* removeMember on a member who is not an OWNER, or is one of two or more
\* OWNERs, succeed: the target's role becomes the requested role (resp. the
\* target's membership is deleted) and no other row changes.
C7_ManagerActsOnMember ==
  quiet => \A u \in Users, b \in boardIds(Store), t \in Users, role \in Roles :
    LET target == membership_findUnique(Store, t, b)
        up == run(Store, reqUpdateMemberRole(u, b, t, role))
        rm == run(Store, reqRemoveMember(u, b, t))
    IN (isManager(Store, u, b) /\ target # {} /\ ~ soleOwner(Store, t, b)) =>
         /\ up.r.res.state = "ok"
         /\ response(up.r).status = 200
         /\ up.S.memberships =
              (memberships \ target) \cup {[userId |-> t, boardId |-> b, role |-> role]}
         /\ sameBoardsAndTasks(up.S)
         /\ rm.r.res.state = "ok"
         /\ response(rm.r).status = 204
         /\ rm.S.memberships = memberships \ target
         /\ sameBoardsAndTasks(rm.S)

\* A MAINTAINER and a board with two OWNERs: the MAINTAINER's requests on one
\* of the OWNERs go through.
C7_MaintainerAndTwoOwners ==
  \E u \in Users, b \in boardIds(Store), t \in Users :
    /\ quiet
    /\ \E m \in membership_findUnique(Store, u, b) : m.role = "MAINTAINER"
    /\ \E m \in ownersOf(Store, b) : m.userId = t
    /\ Cardinality(ownersOf(Store, b)) = 2
    /\ run(Store, reqRemoveMember(u, b, t)).r.res.state = "ok"
    /\ run(Store, reqUpdateMemberRole(u, b, t, "MEMBER")).r.res.state = "ok"

\* C9: getUserBoards(U) returns exactly the boards on which U holds a
\* membership, one entry per board, each with U's role on that board.
C9_UserBoardsExact ==
  \A u \in Users :
    LET o == run(Store, reqGetBoards(u))
        v == o.r.res.value
    IN /\ o.r.res.state = "ok"
       /\ response(o.r).status = 200
       /\ {<<v[i].id, v[i].role>> : i \in 1..Len(v)} =
            {<<m.boardId, m.role>> : m \in {x \in memberships : x.userId = u}}
       /\ \A i, j \in 1..Len(v) : v[i].id = v[j].id => i = j
       /\ o.S = Store

\* Two boards, and a user who is a member of one and not of the other: the
\* list has the one board only.
C9_MemberOfOneOfTwo ==
  \E u \in Users :
    /\ Len(boards) = 2
    /\ Cardinality({m \in memberships : m.userId = u}) = 1
    /\ Len(run(Store, reqGetBoards(u)).r.res.value) = 1

\* C4: addMember for a (board, target) pair that already has a membership
\* fails with Conflict and leaves the memberships unchanged, and no (user,
\* board) pair ever has two memberships. Stated for an actor who may add
\* members, so that the request gets as far as the already-member check.
C4_DuplicateIsConflict ==
  /\ \A m, n \in memberships :
       (m.userId = n.userId /\ m.boardId = n.boardId) => m = n
  /\ \A u \in Users, b \in boardIds(Store), t \in Users, role \in Roles :
       LET o == run(Store, reqAddMember(u, b, t, role))
       IN (isManager(Store, u, b) /\ membership_findUnique(Store, t, b) # {}) =>
            /\ o.r.res.state = "error"
            /\ o.r.res.name = "ConflictError"
            /\ response(o.r).status = 409
            /\ o.S = Store

\* C6: for an actor who is OWNER or MAINTAINER, updateMemberRole (any
\* requested role) and removeMember on the only OWNER of the board fail with
\* Forbidden, HTTP 403, carrying the last-owner message, and the memberships
\* are unchanged.
C6_LastOwnerIsForbidden ==
  \A u \in Users, b \in boardIds(Store), t \in Users, role \in Roles :
    LET up == run(Store, reqUpdateMemberRole(u, b, t, role))
        rm == run(Store, reqRemoveMember(u, b, t))
    IN (isManager(Store, u, b) /\ soleOwner(Store, t, b)) =>
         /\ up.r.res.state = "error"
         /\ up.r.res.name = "ForbiddenError"
         /\ response(up.r) = [status |-> 403,
                              error |-> "Cannot change the role of the last owner"]
         /\ up.S = Store
         /\ rm.r.res.state = "error"
         /\ rm.r.res.name = "ForbiddenError"
         /\ response(rm.r) = [status |-> 403, error |-> "Cannot remove the last owner"]
         /\ rm.S = Store

\* C8: for a caller with a membership on the board and a task of that board,
\* deleteTask succeeds, removing that task and nothing else, exactly when the
\* caller created the task or is OWNER or MAINTAINER; otherwise it fails with
\* Forbidden and the task remains.
C8_DeleteTaskRule ==
  \A u \in Users, b \in boardIds(Store), k \in tasks :
    LET o == run(Store, reqDeleteTask(u, b, k.id))
        mine == membership_findUnique(Store, u, b)
        allowed == \/ k.createdBy = u
                   \/ \E m \in mine : m.role \in {"OWNER", "MAINTAINER"}
    IN (mine # {} /\ k.boardId = b) =>
         IF allowed
           THEN /\ o.r.res.state = "ok"
                /\ response(o.r).status = 204
                /\ o.S = [Store EXCEPT !.tasks = tasks \ {k}]
           ELSE /\ o.r.res.state = "error"
                /\ o.r.res.name = "ForbiddenError"
                /\ response(o.r).status = 403
                /\ o.S = Store

\* A task created by a MEMBER, on a board with an OWNER and a second MEMBER:
\* the creator and the OWNER may delete it, the other MEMBER may not.
C8_MemberTaskAndOtherMember ==
  \E b \in boardIds(Store), k \in tasks, a \in Users, c \in Users :
    /\ k.boardId = b
    /\ a # k.createdBy /\ c # k.createdBy
    /\ \E m \in membership_findUnique(Store, k.createdBy, b) : m.role = "MEMBER"
    /\ \E m \in membership_findUnique(Store, a, b) : m.role = "OWNER"
    /\ \E m \in membership_findUnique(Store, c, b) : m.role = "MEMBER"
    /\ run(Store, reqDeleteTask(k.createdBy, b, k.id)).r.res.state = "ok"
    /\ run(Store, reqDeleteTask(a, b, k.id)).r.res.state = "ok"
    /\ run(Store, reqDeleteTask(c, b, k.id)).r.res.state = "error"

\* The boards that were created and are no longer there.
deletedBoards == (1..nextBoard) \ boardIds(Store)

\* C10: a successful deleteBoard(B) leaves no membership and no task of B,
\* and from then on getBoard(B, u) fails with NotFound for every user u, the
\* former members and the deleting OWNER included.
C10_DeletedBoardIsGone ==
  /\ \A u \in Users, b \in boardIds(Store) :
       LET o == run(Store, reqDeleteBoard(u, b))
       IN o.r.res.state = "ok" =>
            /\ b \notin boardIds(o.S)
            /\ membersOf(o.S, b) = {}
            /\ {k \in o.S.tasks : k.boardId = b} = {}
            /\ \A v \in Users :
                 LET g == run(o.S, reqGetBoard(v, b))
                 IN /\ g.r.res.state = "error"
                    /\ g.r.res.name = "NotFoundError"
                    /\ response(g.r).status = 404
  /\ \A b \in deletedBoards :
       /\ membersOf(Store, b) = {}
       /\ {k \in tasks : k.boardId = b} = {}
       /\ \A v \in Users :
            LET g == run(Store, reqGetBoard(v, b))
            IN /\ g.r.res.state = "error"
               /\ g.r.res.name = "NotFoundError"
               /\ response(g.r).status = 404

\* A board with two members and a task, which its OWNER's deleteBoard removes.
C10_BoardWithRowsDeleted ==
  \E u \in Users, b \in boardIds(Store) :
    /\ Cardinality(membersOf(Store, b)) >= 2
    /\ \E k \in tasks : k.boardId = b
    /\ run(Store, reqDeleteBoard(u, b)).r.res.state = "ok"
    /\ run(Store, reqGetBoard(u, b)).r.res.state = "ok"

\* An in-flight request that has passed its checks and is about to take the
\* OWNER role away from its target.
aboutToDropOwner(r) ==
  \/ r.op = "updateMemberRole" /\ r.pc = "update" /\ r.role # "OWNER"
  \/ r.op = "removeMember" /\ r.pc = "delete"

\* Two in-flight requests on board b that have both counted two OWNERs and
\* are each about to demote or remove a different one of them.
lastOwnerRace(u, v, b) ==
  /\ u # v
  /\ aboutToDropOwner(reqs[u]) /\ aboutToDropOwner(reqs[v])
  /\ reqs[u].boardId = b /\ reqs[v].boardId = b
  /\ reqs[u].ownerCount = 2 /\ reqs[v].ownerCount = 2
  /\ reqs[u].targetUserId # reqs[v].targetUserId
  /\ {m.userId : m \in ownersOf(Store, b)} = {reqs[u].targetUserId, reqs[v].targetUserId}

\* C2: two concurrent updateMemberRole/removeMember requests on a board with
\* exactly two OWNERs, each on a different OWNER, can both read an OWNER count
\* of 2; then both writes go through and the board is left with no OWNER.
C2_RaceLeavesNoOwner ==
  \A u \in Users, v \in Users, b \in boardIds(Store) :
    lastOwnerRace(u, v, b) =>
      LET first == step(Store, reqs[u])
          second == step(first.S, reqs[v])
      IN /\ first.r.res.state = "ok"
         /\ second.r.res.state = "ok"
         /\ b \in boardIds(second.S)
         /\ ownersOf(second.S, b) = {}

\* Both requests have read a count of 2 and neither has written yet, one of
\* them a removal.
C2_BothCountedTwo ==
  \E u \in Users, v \in Users, b \in boardIds(Store) :
    /\ lastOwnerRace(u, v, b)
    /\ reqs[u].op = "removeMember"
    /\ Cardinality(ownersOf(Store, b)) = 2

\* C5: when two addMember requests for the same (board, target) pair have
\* both passed the already-member check, one membership is created and the
\* other request fails with Conflict, HTTP 409.
C5_RaceLoserIsConflict ==
  \A u \in Users :
    LET r == reqs[u]
        o == step(Store, r)
    IN (/\ r.op = "addMember"
        /\ r.pc = "create"
        /\ r.boardId \in boardIds(Store)
        /\ membership_findUnique(Store, r.targetUserId, r.boardId) # {}) =>
         /\ o.r.res.state = "error"
         /\ o.S.memberships = memberships
         /\ Cardinality(membership_findUnique(o.S, r.targetUserId, r.boardId)) = 1
         /\ o.r.res.name = "ConflictError"
         /\ response(o.r).status = 409

\* The board-scoped requests user u can send about board b.
MemberRequests(u, b) ==
  {reqAddMember(u, b, t, role) : t \in UserIds, role \in Roles}
  \cup {reqUpdateMemberRole(u, b, t, role) : t \in UserIds, role \in Roles}
  \cup {reqRemoveMember(u, b, t) : t \in UserIds}
TaskRequests(u, b) ==
  {reqGetTasks(u, b)}
  \cup {reqCreateTask(u, b, taskData(title, st, a)) :
          title \in Titles, st \in NewStatus, a \in Assignees}
  \cup {reqUpdateTask(u, b, k, taskData(Undefined, st, a)) :
          k \in TaskIds, st \in NewStatus, a \in Assignees \cup {Null}}
  \cup {reqDeleteTask(u, b, k) : k \in TaskIds}
BoardRequests(u, b) ==
  {reqGetBoard(u, b), reqDeleteBoard(u, b), reqGetBoardMembers(u, b)}
  \cup {reqUpdateBoard(u, b, name) : name \in Names}
  \cup MemberRequests(u, b)
  \cup TaskRequests(u, b)

roleOf(S, u, b) == {m.role : m \in membership_findUnique(S, u, b)}

\* C11: every board-scoped operation invoked by a user without a membership
\* on the board fails with NotFound, HTTP 404 (never 403), and changes no
\* state.
C11_NonMemberIsNotFound ==
  \A u \in Users, b \in boardIds(Store) :
    roleOf(Store, u, b) = {} =>
      \A r \in BoardRequests(u, b) :
        LET o == run(Store, r)
        IN /\ o.r.res.state = "error"
           /\ o.r.res.name = "NotFoundError"
           /\ response(o.r).status = 404
           /\ o.S = Store

\* The store without board b and without the rows that reference it.
absent(S, b) ==
  [S EXCEPT !.boards = without(@, b),
            !.memberships = {m \in @ : m.boardId # b},
            !.tasks = {k \in @ : k.boardId # b}]

\* C12: for a caller without a membership on board b, every board-scoped
\* operation answers the same (status and message) where b exists as in the
\* otherwise identical state where b does not exist.
C12_ExistenceNotRevealed ==
  quiet => \A u \in Users, b \in boardIds(Store) :
    roleOf(Store, u, b) = {} =>
      \A r \in BoardRequests(u, b) :
        /\ response(run(Store, r).r) = response(run(absent(Store, b), r).r)
        /\ run(Store, r).S = Store

\* A board with two members and a task, and a third user who is not a member:
\* a member reads the board, the third user is answered as for no board.
C12_OutsiderOfLiveBoard ==
  \E u \in Users, v \in Users, b \in boardIds(Store) :
    /\ quiet
    /\ roleOf(Store, u, b) = {}
    /\ roleOf(Store, v, b) = {"MEMBER"}
    /\ \E k \in tasks : k.boardId = b
    /\ response(run(Store, reqGetBoard(v, b)).r).status = 200
    /\ response(run(Store, reqGetBoard(u, b)).r).status = 404
    /\ response(run(absent(Store, b), reqGetBoard(v, b)).r).status = 404

\* C13: updateBoard, addMember, updateMemberRole and removeMember invoked by
\* an actor whose role on the board is MEMBER fail with Forbidden, HTTP 403,
\* and leave the board and the memberships unchanged, whatever the arguments.
C13_MemberIsForbidden ==
  \A u \in Users, b \in boardIds(Store) :
    roleOf(Store, u, b) = {"MEMBER"} =>
      \A r \in {reqUpdateBoard(u, b, name) : name \in Names} \cup MemberRequests(u, b) :
        LET o == run(Store, r)
        IN /\ o.r.res.state = "error"
           /\ o.r.res.name = "ForbiddenError"
           /\ response(o.r).status = 403
           /\ o.S = Store

\* C14: deleteBoard succeeds only for a caller whose role on the board is
\* OWNER; for a MAINTAINER or MEMBER it fails with Forbidden, HTTP 403, and
\* the board, its memberships and its tasks remain.
C14_OnlyOwnerDeletes ==
  \A u \in Users, b \in boardIds(Store) :
    LET o == run(Store, reqDeleteBoard(u, b))
    IN /\ o.r.res.state = "ok" => roleOf(Store, u, b) = {"OWNER"}
       /\ roleOf(Store, u, b) \cap {"MAINTAINER", "MEMBER"} # {} =>
            /\ o.r.res.state = "error"
            /\ o.r.res.name = "ForbiddenError"
            /\ response(o.r) = [status |-> 403, error |-> "Only owners can delete boards"]
            /\ o.S = Store

\* A board with a task, whose MAINTAINER and MEMBER are refused and whose
\* OWNER is not.
C14_MaintainerAndMemberRefused ==
  \E u \in Users, v \in Users, w \in Users, b \in boardIds(Store) :
    /\ roleOf(Store, u, b) = {"MAINTAINER"}
    /\ roleOf(Store, v, b) = {"MEMBER"}
    /\ roleOf(Store, w, b) = {"OWNER"}
    /\ \E k \in tasks : k.boardId = b
    /\ response(run(Store, reqDeleteBoard(u, b)).r).status = 403
    /\ response(run(Store, reqDeleteBoard(v, b)).r).status = 403
    /\ response(run(Store, reqDeleteBoard(w, b)).r).status = 204

\* The typed error kinds, and the statuses mapError gives them.
TypedErrors ==
  {"NotFoundError", "ForbiddenError", "UnauthorizedError", "BadRequestError",
   "ValidationError", "ConflictError"}

\* C15: every authorization or existence failure raised by the membership,
\* board and task services is one of the typed kinds and reaches the client
\* with its mapped status; it is never answered 500.
C15_FailuresAreTyped ==
  \A u \in Users, b \in 1..(nextBoard + 1) :
    \A r \in BoardRequests(u, b) :
      LET o == run(Store, r)
      IN (o.r.res.state = "error" /\ o.r.res.name # "PrismaClientKnownRequestError") =>
           /\ o.r.res.name \in TypedErrors
           /\ response(o.r).status \in {404, 403, 401, 400, 409}
           /\ response(o.r).error = o.r.res.message

\* C18: after any sequence of task and membership operations, every task
\* whose assignedTo is set references a user who holds a membership on the
\* task's own board.
C18_AssigneeIsMember ==
  \A k \in tasks :
    k.assignedTo # Null => membership_findUnique(Store, k.assignedTo, k.boardId) # {}

NotAMember == [status |-> 400, error |-> "Assigned user is not a member of this board"]

\* C19: createTask with an assignee, and updateTask with a non-null
\* assignedTo, fail with BadRequest 'Assigned user is not a member of this
\* board' when that user has no membership on the board; no task is created
\* and the existing task is unchanged.  (The caller is a member and, for
\* updateTask, the task is one of the board.)
C19_AssigneeMustBeMember ==
  quiet => \A u \in Users, b \in boardIds(Store), a \in UserIds :
    (roleOf(Store, u, b) # {} /\ membership_findUnique(Store, a, b) = {}) =>
      /\ \A title \in Titles, st \in TaskStatus \cup {Undefined} :
           LET o == run(Store, reqCreateTask(u, b, taskData(title, st, a)))
           IN /\ o.r.res.name = "BadRequestError"
              /\ response(o.r) = NotAMember
              /\ o.S = Store
      /\ \A k \in {x \in tasks : x.boardId = b}, st \in TaskStatus \cup {Undefined} :
           LET o == run(Store, reqUpdateTask(u, b, k.id, taskData(Undefined, st, a)))
           IN /\ o.r.res.name = "BadRequestError"
              /\ response(o.r) = NotAMember
              /\ o.S = Store

\* A board with a task, a member, and a registered user who is not a member:
\* assigning the task to the member goes through, to the other user it does
\* not.
C19_TaskAndOutsider ==
  \E u \in Users, a \in Users, b \in boardIds(Store), k \in tasks :
    /\ quiet
    /\ k.boardId = b
    /\ roleOf(Store, u, b) # {}
    /\ roleOf(Store, a, b) = {}
    /\ response(run(Store, reqUpdateTask(u, b, k.id, taskData(Undefined, Undefined, u))).r).status = 200
    /\ response(run(Store, reqUpdateTask(u, b, k.id, taskData(Undefined, Undefined, a))).r).status = 400
    /\ response(run(Store, reqCreateTask(u, b, taskData("A", Undefined, a))).r).status = 400

\* C20: an OWNER's removeMember on themself succeeds exactly when the board
\* has at least two OWNERs, and once it has succeeded every board-scoped
\* request by that user on that board fails with NotFound.
C20_SelfRemoval ==
  \A u \in Users, b \in boardIds(Store) :
    roleOf(Store, u, b) = {"OWNER"} =>
      LET o == run(Store, reqRemoveMember(u, b, u))
      IN /\ o.r.res.state = "ok" <=> Cardinality(ownersOf(Store, b)) >= 2
         /\ o.r.res.state = "ok" =>
              /\ o.S.memberships = memberships \ membership_findUnique(Store, u, b)
              /\ \A r \in BoardRequests(u, b) :
                   LET after == run(o.S, r)
                   IN /\ after.r.res.name = "NotFoundError"
                      /\ response(after.r).status = 404
                      /\ after.S = o.S

\* The tokens a client can present that verification does not accept now:
\* no JWT at all, one signed with another key, and the logged-in users'
\* tokens that are past their exp.
RejectedTokens ==
  {Garbage, Undecodable}
  \cup {forged(u, clock) : u \in Users}
  \cup {tokens[u] : u \in {x \in Users : tokens[x].form = "jwt" /\ clock >= tokens[x].exp}}

\* C16: a request to a protected route without a bearer token is answered
\* 401, one with a malformed, wrongly signed or expired token 403; in both
\* cases the controller is not invoked and no state changes.
C16_MiddlewareRejects ==
  \A r \in AuthRequests :
    /\ \A header \in {NoHeader, <<"Bearer">>} :
         LET o == http(Store, header, clock, r)
         IN /\ o.response = [status |-> 401, error |-> "Access token required"]
            /\ ~ o.controller
            /\ o.S = Store
    /\ \A token \in RejectedTokens :
         LET o == http(Store, Bearer(token), clock, r)
         IN /\ o.response = [status |-> 403, error |-> "Invalid or expired token"]
            /\ ~ o.controller
            /\ o.S = Store

\* One user's token has expired while another's is still good: the first is
\* stopped by the middleware, the second reaches the controller.
C16_ExpiredAndLiveToken ==
  \E u \in Users, v \in Users :
    /\ tokens[u].form = "jwt" /\ clock >= tokens[u].exp
    /\ tokens[v].form = "jwt" /\ clock < tokens[v].exp
    /\ ~ http(Store, Bearer(tokens[u]), clock, reqGetBoards("")).controller
    /\ http(Store, Bearer(tokens[v]), clock, reqGetBoards("")).controller

\* C17: the token that register or login issued for user U, presented on a
\* protected route before it expires, resolves to caller U: the request is not
\* answered 401, and createBoard with it makes U the new board's OWNER.
C17_TokenResolvesToUser ==
  \A u \in Users, name \in NewNames :
    (tokens[u].form = "jwt" /\ clock < tokens[u].exp) =>
      LET o == http(Store, Bearer(tokens[u]), clock, reqCreateBoard("", name))
          id == nextBoard + 1
      IN /\ o.controller
         /\ o.response.status # 401
         /\ o.response.status = 201
         /\ membersOf(o.S, id) = {[userId |-> u, boardId |-> id, role |-> "OWNER"]}

\* The management requests user u can send about board b.
ManagerRequests(u, b) ==
  {reqUpdateBoard(u, b, name) : name \in Names} \cup MemberRequests(u, b)

\* The store in which u's role on b is MAINTAINER and all else is as in S.
asMaintainer(S, u, b) ==
  [S EXCEPT !.memberships =
     (@ \ membership_findUnique(S, u, b))
       \cup {[userId |-> u, boardId |-> b, role |-> "MAINTAINER"]}]

\* The memberships other than u's on b.
otherMemberships(S, u, b) == {m \in S.memberships : ~ (m.userId = u /\ m.boardId = b)}

\* Request r has the same outcome and the same effect on the other
\* memberships in S, where actor u is OWNER of b, as where u is MAINTAINER.
sameAsMaintainer(S, u, b, r) ==
  LET asOwner == run(S, r)
      asMaint == run(asMaintainer(S, u, b), r)
  IN /\ asOwner.r.res.state = asMaint.r.res.state
     /\ asOwner.r.res.name = asMaint.r.res.name
     /\ asOwner.r.res.message = asMaint.r.res.message
     /\ response(asOwner.r) = response(asMaint.r)
     /\ otherMemberships(asOwner.S, u, b) = otherMemberships(asMaint.S, u, b)
     /\ asOwner.S.boards = asMaint.S.boards

\* The request acts on an OWNER other than the actor u who, with u as
\* MAINTAINER, would be the board's only OWNER.
onLastOtherOwner(S, u, b, r) ==
  /\ r.op \in {"updateMemberRole", "removeMember"}
  /\ r.targetUserId # u
  /\ roleOf(S, r.targetUserId, b) = {"OWNER"}
  /\ Cardinality(ownersOf(S, b)) = 2

\* C21 as stated: for updateBoard, addMember, updateMemberRole and
\* removeMember, the same request has the same outcome and the same effect on
\* all other memberships whether the acting user is OWNER or MAINTAINER.
C21_OwnerAndMaintainerAlike ==
  \A u \in Users, b \in boardIds(Store) :
    (roleOf(Store, u, b) = {"OWNER"} /\ Cardinality(ownersOf(Store, b)) >= 2) =>
      \A r \in ManagerRequests(u, b) : sameAsMaintainer(Store, u, b, r)

\* C21 amended: the same, except for updateMemberRole and removeMember on
\* another OWNER when the actor and the target are the board's two OWNERs: the
\* OWNER actor counts two OWNERs and succeeds, the MAINTAINER actor counts one
\* and is refused by the last-owner check.
C21_AlikeButForLastOwner ==
  quiet => \A u \in Users, b \in boardIds(Store) :
    (roleOf(Store, u, b) = {"OWNER"} /\ Cardinality(ownersOf(Store, b)) >= 2) =>
      \A r \in ManagerRequests(u, b) :
        /\ ~ onLastOtherOwner(Store, u, b, r) => sameAsMaintainer(Store, u, b, r)
        /\ onLastOtherOwner(Store, u, b, r) =>
             /\ run(Store, r).r.res.state = "ok"
             /\ run(asMaintainer(Store, u, b), r).r.res.state = "error"

\* A board with two OWNERs and a MEMBER: as OWNER or as MAINTAINER the actor
\* removes the MEMBER; on the other OWNER it is the exceptional case.
C21_TwoOwnersAndMember ==
  \E u \in Users, t \in Users, v \in Users, b \in boardIds(Store) :
    /\ quiet
    /\ roleOf(Store, u, b) = {"OWNER"}
    /\ roleOf(Store, t, b) = {"OWNER"}
    /\ roleOf(Store, v, b) = {"MEMBER"}
    /\ u # t
    /\ run(Store, reqRemoveMember(u, b, v)).r.res.state = "ok"
    /\ run(asMaintainer(Store, u, b), reqRemoveMember(u, b, v)).r.res.state = "ok"
    /\ onLastOtherOwner(Store, u, b, reqRemoveMember(u, b, t))

\* C22: a removeMember or updateMemberRole by a MAINTAINER on an OWNER is
\* gated by the OWNER count only: it fails with the last-owner Forbidden when
\* the target is the board's only OWNER and succeeds when there are two or
\* more.
C22_MaintainerOnOwner ==
  \A u \in Users, b \in boardIds(Store), t \in Users, role \in Roles :
    (roleOf(Store, u, b) = {"MAINTAINER"} /\ roleOf(Store, t, b) = {"OWNER"}) =>
      LET up == run(Store, reqUpdateMemberRole(u, b, t, role))
          rm == run(Store, reqRemoveMember(u, b, t))
      IN IF Cardinality(ownersOf(Store, b)) = 1
           THEN /\ up.r.res.name = "ForbiddenError"
                /\ response(up.r) = [status |-> 403,
                                     error |-> "Cannot change the role of the last owner"]
                /\ up.S = Store
                /\ rm.r.res.name = "ForbiddenError"
                /\ response(rm.r) = [status |-> 403,
                                     error |-> "Cannot remove the last owner"]
                /\ rm.S = Store
           ELSE /\ up.r.res.state = "ok"
                /\ roleOf(up.S, t, b) = {role}
                /\ rm.r.res.state = "ok"
                /\ roleOf(rm.S, t, b) = {}

\* C23: a MAINTAINER can change the role only of members whose role is
\* MEMBER: updateMemberRole by a MAINTAINER on a member whose role is
\* MAINTAINER or OWNER is rejected and changes nothing.
C23_MaintainerChangesMembersOnly ==
  \A u \in Users, b \in boardIds(Store), t \in Users, role \in Roles :
    (roleOf(Store, u, b) = {"MAINTAINER"}
       /\ roleOf(Store, t, b) \cap {"MAINTAINER", "OWNER"} # {}) =>
      LET o == run(Store, reqUpdateMemberRole(u, b, t, role))
      IN o.r.res.state = "error" /\ o.S = Store

\* C24: updateTask and deleteTask by a member of the requested board, OWNER
\* included, with a taskId that does not exist or that belongs to another
\* board, fail with NotFound 'Task not found' and change nothing.
C24_ForeignTaskIsNotFound ==
  quiet => \A u \in Users, b \in boardIds(Store), k \in 1..(MaxTasks + 1) :
    (roleOf(Store, u, b) # {} /\ ~ \E t \in Store.tasks : t.id = k /\ t.boardId = b) =>
      \A r \in {reqDeleteTask(u, b, k)}
               \cup {reqUpdateTask(u, b, k, taskData(title, st, a)) :
                       title \in Titles \cup {Undefined}, st \in TaskStatus \cup {Undefined},
                       a \in Assignees \cup {Null}} :
        LET o == run(Store, r)
        IN /\ o.r.res.name = "NotFoundError"
           /\ response(o.r) = [status |-> 404, error |-> "Task not found"]
           /\ o.S = Store

\* A task of board 2, and the OWNER of board 1 asking for it under board 1 is
\* answered 'Task not found'; another id is of no task at all.
C24_TaskOfOtherBoard ==
  \E u \in Users, t \in Store.tasks :
    /\ quiet
    /\ t.boardId = 2
    /\ roleOf(Store, u, 1) = {"OWNER"}
    /\ roleOf(Store, u, 2) # {}
    /\ run(Store, reqDeleteTask(u, 1, t.id)).r.res.message = "Task not found"
    /\ run(Store, reqDeleteTask(u, 2, t.id)).r.res.state = "ok"
    /\ \E k \in TaskIds : ~ \E x \in Store.tasks : x.id = k

(***************************************************************************)
(* TaskController.updateTask: the request body, its validation and the     *)
(* updateData handed to the service.                                       *)
(***************************************************************************)
\* String.prototype.trim on the texts a body carries here.
trim(text) ==
  CASE text = " B " -> "B"
    [] text = "  " -> ""
    [] text = " d" -> "d"
    [] OTHER -> text

BodyTitles == {Undefined, Null, "B", " B ", "  "}
BodyDescriptions == {Undefined, Null, " d"}
BodyStatus == {Undefined, Null, "", "DONE", "LATER"}
Bodies ==
  {[NoData EXCEPT !.title = title, !.description = d, !.status = st, !.assignedTo = a] :
     title \in BodyTitles, d \in BodyDescriptions, st \in BodyStatus,
     a \in Assignees \cup {Null}}

\* `description?.trim()` is undefined for a null description.
updateData(body) ==
  [NoData EXCEPT
     !.title = IF body.title # Undefined THEN trim(body.title) ELSE Undefined,
     !.description = IF body.description \in {Undefined, Null} THEN Undefined
                     ELSE trim(body.description),
     !.status = body.status,
     !.assignedTo = body.assignedTo]

\* typeof v === 'string', for the values a body field takes here.
isString(v) == v \notin {Undefined, Null}

patchTask(S, u, b, k, body) ==
  IF body.title # Undefined /\ (~ isString(body.title) \/ trim(body.title) = "")
    THEN Throw(S, reqUpdateTask(u, b, k, body), "BadRequestError",
               "Task title cannot be empty")
  ELSE IF truthy(body.status) /\ body.status \notin TaskStatus
    THEN Throw(S, reqUpdateTask(u, b, k, body), "BadRequestError",
               "Invalid status. Must be TODO, IN_PROGRESS, or DONE")
  ELSE run(S, reqUpdateTask(u, b, k, updateData(body)))

\* The task with id k.
taskOf(S, k) == {t \in S.tasks : t.id = k}

\* C25: a successful updateTask changes only the provided fields among
\* title, description, status and assignedTo; omitted fields keep their
\* values, the task's board and creator do not change, no other task
\* changes, and assignedTo null clears the assignment with no membership
\* lookup.
C25_OnlyProvidedFieldsChange ==
  quiet => \A u \in Users, b \in boardIds(Store), k \in TaskIds, body \in Bodies :
    LET o == patchTask(Store, u, b, k, body)
        first == step(Store, reqUpdateTask(u, b, k, updateData(body)))
        second == step(first.S, first.r)
    IN o.r.res.state = "ok" =>
         /\ \A old \in taskOf(Store, k) :
              /\ taskOf(o.S, k) # {}
              /\ \A new \in taskOf(o.S, k) :
                   /\ new.boardId = old.boardId /\ old.boardId = b
                   /\ new.createdBy = old.createdBy
                   /\ new.title = (IF body.title = Undefined THEN old.title
                                   ELSE trim(body.title))
                   /\ body.description = Undefined => new.description = old.description
                   /\ new.description # old.description =>
                        new.description = trim(body.description)
                   /\ new.status = (IF body.status = Undefined THEN old.status
                                    ELSE body.status)
                   /\ new.assignedTo = (IF body.assignedTo = Undefined THEN old.assignedTo
                                        ELSE body.assignedTo)
         /\ {t \in o.S.tasks : t.id # k} = {t \in Store.tasks : t.id # k}
         /\ Cardinality(o.S.tasks) = Cardinality(Store.tasks)
         /\ o.S.boards = Store.boards /\ o.S.memberships = Store.memberships
         /\ body.assignedTo = Null => second.r.pc = "update"

\* An assigned task: an update of its title alone keeps the assignee, and
\* an update with assignedTo null clears it.
C25_AssignedTaskPatched ==
  \E u \in Users, t \in Store.tasks :
    LET titled == patchTask(Store, u, t.boardId, t.id, [NoData EXCEPT !.title = " B "])
        cleared == patchTask(Store, u, t.boardId, t.id, [NoData EXCEPT !.assignedTo = Null])
    IN /\ quiet
       /\ t.assignedTo \in Users
       /\ titled.r.res.state = "ok"
       /\ \E n \in taskOf(titled.S, t.id) : n.title = "B" /\ n.assignedTo = t.assignedTo
       /\ cleared.r.res.state = "ok"
       /\ \E n \in taskOf(cleared.S, t.id) : n.title = t.title /\ n.assignedTo = Null
       /\ \E x \in Store.tasks : x.id # t.id

\* The first check of addMember, updateMemberRole or removeMember that
\* request r fails in store S, in the order the service applies them, with
\* the failure kind the checks are documented to have; "" when all pass.
firstFailure(S, r) ==
  LET actor == roleOf(S, r.userId, r.boardId)
      target == roleOf(S, r.targetUserId, r.boardId)
      verb == CASE r.op = "addMember" -> "Only owners and maintainers can add members"
                [] r.op = "updateMemberRole" ->
                     "Only owners and maintainers can update member roles"
                [] OTHER -> "Only owners and maintainers can remove members"
  IN IF actor = {}
       THEN [name |-> "NotFoundError", status |-> 404,
             message |-> "Board not found or access denied"]
     ELSE IF actor = {"MEMBER"}
       THEN [name |-> "ForbiddenError", status |-> 403, message |-> verb]
     ELSE IF r.op = "addMember" /\ r.targetUserId \notin Users
       THEN [name |-> "NotFoundError", status |-> 404, message |-> "User not found"]
     ELSE IF r.op = "addMember" /\ target # {}
       THEN [name |-> "ConflictError", status |-> 409,
             message |-> "User is already a member of this board"]
     ELSE IF r.op # "addMember" /\ target = {}
       THEN [name |-> "NotFoundError", status |-> 404, message |-> "Member not found"]
     ELSE IF r.op # "addMember" /\ soleOwner(S, r.targetUserId, r.boardId)
       THEN [name |-> "ForbiddenError", status |-> 403,
             message |-> IF r.op = "updateMemberRole"
                           THEN "Cannot change the role of the last owner"
                         ELSE "Cannot remove the last owner"]
     ELSE [name |-> "", status |-> success(r.op), message |-> ""]

\* C26: addMember, updateMemberRole and removeMember report the first check
\* that fails, in the order: actor's membership (NotFound), actor not MEMBER
\* (Forbidden), target exists (NotFound), then already-member (Conflict) or
\* last-owner (Forbidden).
C26_FirstFailureReported ==
  \A u \in Users, b \in 1..(nextBoard + 1) :
    \A r \in MemberRequests(u, b) :
      LET o == run(Store, r)
          f == firstFailure(Store, r)
      IN /\ (f.name = "") = (o.r.res.state = "ok")
         /\ f.name # "" =>
              /\ o.r.res.name = f.name
              /\ o.r.res.message = f.message
              /\ response(o.r).status = f.status

\* The refusals that depend on the caller's own membership.
AccessMessages ==
  {"Board not found or access denied",
   "Only owners and maintainers can update boards",
   "Only owners and maintainers can add members",
   "Only owners and maintainers can update member roles",
   "Only owners and maintainers can remove members"}

\* In store S, where u's role on b has just changed from `was`, u's next
\* request on b is decided by the role u has in S: NotFound after removal,
\* Forbidden for the management operations after demotion to MEMBER, no
\* refusal on account of the caller after promotion to manager.
decidedByNewRole(S, u, b, was) ==
  LET now == roleOf(S, u, b)
  IN /\ now = {} =>
          \A r \in BoardRequests(u, b) :
            LET o == run(S, r)
            IN /\ o.r.res.name = "NotFoundError"
               /\ response(o.r).status = 404
               /\ o.S = S
     /\ (now = {"MEMBER"} /\ was \cap {"OWNER", "MAINTAINER"} # {}) =>
          \A r \in ManagerRequests(u, b) :
            LET o == run(S, r)
            IN /\ o.r.res.name = "ForbiddenError"
               /\ response(o.r).status = 403
               /\ o.S = S
     /\ (now \cap {"OWNER", "MAINTAINER"} # {} /\ was \subseteq {"MEMBER"}) =>
          \A r \in ManagerRequests(u, b) :
            LET o == run(S, r)
            IN o.r.res.state = "error" => o.r.res.message \notin AccessMessages

\* C27: every access decision uses the membership at the time of the
\* request: once a step has removed a user's membership on a board or changed
\* their role, that user's next request on the board is decided by the new
\* state.
C27_DecidedByCurrentMembership ==
  [][\A u \in Users, b \in boardIds(Store) :
       (b \in boardIds(Store)' /\ roleOf(Store, u, b) # roleOf(Store, u, b)') =>
         decidedByNewRole(Store, u, b, roleOf(Store, u, b))']_vars

\* The users of an answer.
answered(r) == {r.res.value[i].id : i \in 1..Len(r.res.value)}

\* C28: searchUsers answers the empty list, with no store query, when the
\* query is missing or its trimmed length is below 2; otherwise the answer
\* never has the caller, has only users whose email or name contains the
\* query, and has at most `limit` entries (10 when no limit is given; a
\* limit below 0 allows no entry).  Stated for every registered caller.
C28_SearchUsers ==
  \A u \in userIds(Store), q \in Queries, limit \in Limits :
    LET r == reqSearchUsers(u, q, limit)
        o == run(Store, r)
    IN /\ o.r.res.state = "ok"
       /\ IF q.form = "undefined" \/ Len(trimChars(q.chars)) < 2
            THEN o.r.res.value = <<>> /\ step(Store, r).r.pc = "done"
          ELSE /\ u \notin answered(o.r)
               /\ \A v \in answered(o.r) :
                    contains(emailOf(v), q.chars) \/ contains(nameOf(v), q.chars)
               /\ Len(o.r.res.value) <= (IF r.data.limit < 0 THEN 0 ELSE r.data.limit)

\* C29: a MAINTAINER of a board cannot, by requests of their own, obtain the
\* OWNER role on the board or have the board deleted: after any one of their
\* requests they are not OWNER and the board exists, and a deleteBoard of
\* theirs that follows is refused.
C29_MaintainerStaysBelowOwner ==
  \A u \in Users, b \in boardIds(Store) :
    roleOf(Store, u, b) = {"MAINTAINER"} =>
      \A r \in ManagerRequests(u, b) \cup {reqDeleteBoard(u, b)} :
        LET o == run(Store, r)
            d == run(o.S, reqDeleteBoard(u, b))
        IN /\ roleOf(o.S, u, b) # {"OWNER"}
           /\ b \in boardIds(o.S)
           /\ d.r.res.state = "error"
           /\ b \in boardIds(d.S)

\* The roles that pass an operation's role check.
requiredRoles(op) == IF op = "deleteBoard" THEN {"OWNER"} ELSE {"OWNER", "MAINTAINER"}

\* An in-flight request that has passed its checks: its next store call is
\* its write.
aboutToWrite(r) ==
  /\ r.op \in {"addMember", "updateMemberRole", "removeMember", "updateBoard", "deleteBoard"}
  /\ r.pc \in {"create", "update", "delete"}

\* C30: under concurrent requests, the write of addMember, updateMemberRole,
\* removeMember, updateBoard or deleteBoard is not committed once the acting
\* user's membership has been removed or demoted below the required role by
\* another request that completed after the actor's role check.
C30_NoWriteAfterLosingRole ==
  \A u \in Users :
    LET r == reqs[u]
    IN (/\ aboutToWrite(r)
        /\ r.boardId \in boardIds(Store)
        /\ roleOf(Store, r.userId, r.boardId) \cap requiredRoles(r.op) = {}) =>
         step(Store, r).S = Store

====
